---- MODULE Spec2Model ----
(***************************************************************************)
(* Model of the memU MCP server (src/src/memu_mcp_server): the backend     *)
(* client wrapper with its retrying initialize(), the five MemoryTools     *)
(* handlers with their argument validation, the call_tool dispatcher and   *)
(* the life cycle of MemuMCPServer.run().                                  *)
(***************************************************************************)
EXTENDS Integers, Sequences, FiniteSets, TLC

(***************************************************************************)
(* Bounds of the model.                                                    *)
(***************************************************************************)
\* largest MAX_RETRY_ATTEMPTS the environment is allowed to configure
MaxRetriesBound == 3
\* how far beyond the conversation limit the sampled string lengths go
OverLong == 2
\* the number of callers with a call in flight at the same time
MaxCallers == 2

(***************************************************************************)
(* Program constants.                                                      *)
(***************************************************************************)
ConversationLimit == 100000
LimitMin == 1
LimitMax == 50
DefaultLimit == 10
DefaultBaseDelay == 5

(***************************************************************************)
(* Python values.  A value is a record tagged with its kind; a string is   *)
(* its text (or a symbolic name for a long text) and its length.           *)
(***************************************************************************)
None == [k |-> "none"]
Absent == [k |-> "absent"]
PyStr(t, n) == [k |-> "str", txt |-> t, len |-> n]
PyInt(n) == [k |-> "int", n |-> n]
PyBool(b) == [k |-> "bool", b |-> b]
PyFloat(tenths) == [k |-> "float", tenths |-> tenths]
PyList(n) == [k |-> "list", len |-> n]
PyDict(n) == [k |-> "dict", len |-> n]

\* bool(v): Python truthiness
Truthy(v) ==
    CASE v.k = "none" -> FALSE
      [] v.k = "str" -> v.len > 0
      [] v.k = "int" -> v.n # 0
      [] v.k = "bool" -> v.b
      [] v.k = "float" -> v.tenths # 0
      [] v.k = "list" -> v.len > 0
      [] v.k = "dict" -> v.len > 0

\* isinstance(v, int): bool is a subclass of int
IsInstanceInt(v) == v.k \in {"int", "bool"}

\* the integer a value of type int (or bool) compares as
IntValue(v) == IF v.k = "bool" THEN (IF v.b THEN 1 ELSE 0) ELSE v.n

\* isinstance(v, dict), isinstance(v, bool), isinstance(v, str)
IsInstanceDict(v) == v.k = "dict"
IsInstanceBool(v) == v.k = "bool"
IsInstanceStr(v) == v.k = "str"

\* whether len(v) is defined, and its value
HasLen(v) == v.k \in {"str", "list", "dict"}
PyLen(v) == v.len

\* arguments.get(key) and arguments.get(key, default)
Get(arguments, key) == IF key \in DOMAIN arguments THEN arguments[key] ELSE None
GetDefault_no_default(arguments, key, default) == Get(arguments, key)

GetDefault(arguments, key, default) ==
    IF key \in DOMAIN arguments THEN arguments[key] ELSE default

(***************************************************************************)
(* Exceptions.                                                             *)
(***************************************************************************)
NoExc == [type |-> "none", msg |-> ""]
Exc(t, m) == [type |-> t, msg |-> m]
ValueError(m) == Exc("ValueError", m)
RuntimeError(m) == Exc("RuntimeError", m)
TypeError(m) == Exc("TypeError", m)
ConnectionError(m) == Exc("ConnectionError", m)

(***************************************************************************)
(* MemuClientWrapper: the per-operation adapter methods.  _client is the   *)
(* session handle; backendFails says whether the memU service call raises. *)
(* Each method returns the exception it raises (or NoExc), the mapping it  *)
(* returns, and whether the (real or simulated) memU call was carried out. *)
(***************************************************************************)
NoClient == "None"
MemuClient == "MemuClient"
NoRet == [keys |-> {}]
BackendMsg == "backend unavailable"

AdapterRaise(e, c) == [exc |-> e, ret |-> NoRet, contacted |-> c]
AdapterReturn(r, c) == [exc |-> NoExc, ret |-> r, contacted |-> c]

client_memorize_conversation(_client, kw, backendFails) ==
    IF _client = NoClient THEN AdapterRaise(RuntimeError("Client not initialized"), FALSE)
    ELSE IF backendFails
    THEN AdapterRaise(RuntimeError("Failed to memorize conversation: " \o BackendMsg), TRUE)
    ELSE IF ~IsInstanceStr(kw.conversation)
    THEN AdapterRaise(RuntimeError("Failed to memorize conversation: '"
                         \o kw.conversation.k \o "' object has no attribute 'split'"), TRUE)
    ELSE AdapterReturn(
           [keys |-> {"success", "message", "memory_id", "tokens_processed", "processing_time"},
            success |-> TRUE,
            message |-> "Conversation memorized successfully"], TRUE)

client_retrieve_memory_unguarded(_client, kw) ==
    AdapterReturn(
      [keys |-> {"success", "memories", "total_found", "query", "processing_time"},
       success |-> TRUE,
       memories |-> <<[id |-> "mem_001", user_id |-> kw.user_id]>>,
       total_found |-> 1,
       query |-> kw.query], TRUE)

client_retrieve_memory(_client, kw) ==
    IF _client = NoClient THEN AdapterRaise(RuntimeError("Client not initialized"), FALSE)
    ELSE AdapterReturn(
           [keys |-> {"success", "memories", "total_found", "query", "processing_time"},
            success |-> TRUE,
            memories |-> <<[id |-> "mem_001", user_id |-> kw.user_id]>>,
            total_found |-> 1,
            query |-> kw.query], TRUE)

client_search_memory(_client, kw) ==
    IF _client = NoClient THEN AdapterRaise(RuntimeError("Client not initialized"), FALSE)
    ELSE AdapterReturn(
           [keys |-> {"success", "results", "total_results", "search_query",
                      "filters_applied", "processing_time"},
            success |-> TRUE,
            results |-> <<[id |-> "mem_002", user_id |-> kw.user_id]>>,
            total_results |-> 1,
            search_query |-> kw.search_query,
            filters_applied |-> IF Truthy(kw.filters) THEN kw.filters ELSE PyDict(0)], TRUE)

client_update_memory(_client, kw) ==
    IF _client = NoClient THEN AdapterRaise(RuntimeError("Client not initialized"), FALSE)
    ELSE AdapterReturn(
           [keys |-> {"success", "message", "memory_id", "updated_content", "processing_time"},
            success |-> TRUE,
            message |-> "Memory updated successfully",
            memory_id |-> kw.memory_id,
            updated_content |-> kw.new_content], TRUE)

client_delete_memory(_client, kw) ==
    IF _client = NoClient THEN AdapterRaise(RuntimeError("Client not initialized"), FALSE)
    ELSE AdapterReturn(
           [keys |-> {"success", "message", "memory_id", "processing_time"},
            success |-> TRUE,
            message |-> "Memory deleted successfully",
            memory_id |-> kw.memory_id], TRUE)

client_get_memory_stats_always_details(_client, kw) ==
    IF _client = NoClient THEN AdapterRaise(RuntimeError("Client not initialized"), FALSE)
    ELSE AdapterReturn(
           [keys |-> {"success", "user_id", "total_memories", "total_conversations",
                      "memory_size_mb", "last_updated", "processing_time", "details"},
            success |-> TRUE,
            user_id |-> kw.user_id,
            details |-> {"memories_by_agent", "memory_types", "date_range"}], TRUE)

client_get_memory_stats(_client, kw) ==
    IF _client = NoClient THEN AdapterRaise(RuntimeError("Client not initialized"), FALSE)
    ELSE AdapterReturn(
           [keys |-> {"success", "user_id", "total_memories", "total_conversations",
                      "memory_size_mb", "last_updated", "processing_time"}
                     \cup (IF Truthy(kw.include_details) THEN {"details"} ELSE {}),
            success |-> TRUE,
            user_id |-> kw.user_id,
            details |-> IF Truthy(kw.include_details)
                        THEN {"memories_by_agent", "memory_types", "date_range"}
                        ELSE {}], TRUE)

(***************************************************************************)
(* MemoryTools: the five handlers.  A handler returns the exception it     *)
(* raises (or NoExc), the mapping it returns, the adapter methods it       *)
(* invoked (calls) and the log_tool_call records it emitted (logs).        *)
(***************************************************************************)
DefaultUser == PyStr("default_user", 12)
LogRecord(tool, ok) == [tool_name |-> tool, success |-> ok]
Call(method, kw) == [method |-> method, kwargs |-> kw]

\* the except block of a handler: log the failure and re-raise
HandlerRaise(tool, e, calls, logs, c) ==
    [exc |-> e, ret |-> NoRet, calls |-> calls,
     logs |-> Append(logs, LogRecord(tool, FALSE)), contacted |-> c]
HandlerReturn(r, calls, logs, c) ==
    [exc |-> NoExc, ret |-> r, calls |-> calls, logs |-> logs, contacted |-> c]

HandlerInvoke_retry(tool, method, kw, r) ==
    IF r.exc # NoExc
    THEN HandlerRaise(tool, r.exc, <<Call(method, kw), Call(method, kw)>>,
                      <<LogRecord(tool, TRUE)>>, r.contacted)
    ELSE HandlerReturn(r.ret, <<Call(method, kw)>>, <<LogRecord(tool, TRUE)>>, r.contacted)

\* the tail shared by the handlers: log the call, await the adapter method
HandlerInvoke(tool, method, kw, r) ==
    IF r.exc # NoExc
    THEN HandlerRaise(tool, r.exc, <<Call(method, kw)>>, <<LogRecord(tool, TRUE)>>, r.contacted)
    ELSE HandlerReturn(r.ret, <<Call(method, kw)>>, <<LogRecord(tool, TRUE)>>, r.contacted)

\* len(conversation) > 100000
TooLong_inclusive(conversation) == PyLen(conversation) >= ConversationLimit

TooLong(conversation) == PyLen(conversation) > ConversationLimit

tools_memorize_conversation(arguments, _client, backendFails) ==
    LET tool == "memorize_conversation"
        conversation == Get(arguments, "conversation")
    IN  IF ~Truthy(conversation)
        THEN HandlerRaise(tool, ValueError("conversation is required"), <<>>, <<>>, FALSE)
        ELSE IF ~HasLen(conversation)
        THEN HandlerRaise(tool, TypeError("object of type '" \o conversation.k \o "' has no len()"),
                          <<>>, <<>>, FALSE)
        ELSE IF TooLong(conversation)
        THEN HandlerRaise(tool, ValueError("Conversation too long (max 100,000 characters)"),
                          <<>>, <<>>, FALSE)
        ELSE LET kw == [conversation |-> conversation,
                        user_id |-> GetDefault(arguments, "user_id", DefaultUser),
                        user_name |-> GetDefault(arguments, "user_name", PyStr("User", 4)),
                        agent_id |-> GetDefault(arguments, "agent_id", PyStr("default_agent", 13)),
                        agent_name |-> GetDefault(arguments, "agent_name", PyStr("Assistant", 9))]
             IN  HandlerInvoke(tool, tool, kw,
                               client_memorize_conversation(_client, kw, backendFails))

\* the limit check of retrieve_memory and search_memory
LimitInvalid(limit) ==
    \/ ~IsInstanceInt(limit)
    \/ IntValue(limit) < LimitMin
    \/ IntValue(limit) > LimitMax

tools_retrieve_memory_limit_first(arguments, _client) ==
    LET tool == "retrieve_memory"
        query == Get(arguments, "query")
        limit == GetDefault(arguments, "limit", PyInt(DefaultLimit))
    IN  IF LimitInvalid(limit)
        THEN HandlerRaise(tool, ValueError("limit must be an integer between 1 and 50"),
                          <<>>, <<>>, FALSE)
        ELSE IF ~Truthy(query)
        THEN HandlerRaise(tool, ValueError("query is required"), <<>>, <<>>, FALSE)
        ELSE LET kw == [query |-> query,
                        user_id |-> GetDefault(arguments, "user_id", DefaultUser),
                        limit |-> limit]
             IN  HandlerInvoke(tool, tool, kw, client_retrieve_memory(_client, kw))

tools_retrieve_memory(arguments, _client) ==
    LET tool == "retrieve_memory"
        query == Get(arguments, "query")
        limit == GetDefault(arguments, "limit", PyInt(DefaultLimit))
    IN  IF ~Truthy(query)
        THEN HandlerRaise(tool, ValueError("query is required"), <<>>, <<>>, FALSE)
        ELSE IF LimitInvalid(limit)
        THEN HandlerRaise(tool, ValueError("limit must be an integer between 1 and 50"),
                          <<>>, <<>>, FALSE)
        ELSE LET kw == [query |-> query,
                        user_id |-> GetDefault(arguments, "user_id", DefaultUser),
                        limit |-> limit]
             IN  HandlerInvoke(tool, tool, kw, client_retrieve_memory(_client, kw))

tools_search_memory_limit_first(arguments, _client) ==
    LET tool == "search_memory"
        search_query == Get(arguments, "search_query")
        filters == GetDefault(arguments, "filters", PyDict(0))
        limit == GetDefault(arguments, "limit", PyInt(DefaultLimit))
    IN  IF LimitInvalid(limit)
        THEN HandlerRaise(tool, ValueError("limit must be an integer between 1 and 50"),
                          <<>>, <<>>, FALSE)
        ELSE IF ~Truthy(search_query)
        THEN HandlerRaise(tool, ValueError("search_query is required"), <<>>, <<>>, FALSE)
        ELSE IF Truthy(filters) /\ ~IsInstanceDict(filters)
        THEN HandlerRaise(tool, ValueError("filters must be a dictionary"), <<>>, <<>>, FALSE)
        ELSE LET kw == [search_query |-> search_query,
                        user_id |-> GetDefault(arguments, "user_id", DefaultUser),
                        filters |-> filters,
                        limit |-> limit]
             IN  HandlerInvoke(tool, tool, kw, client_search_memory(_client, kw))

tools_search_memory(arguments, _client) ==
    LET tool == "search_memory"
        search_query == Get(arguments, "search_query")
        filters == GetDefault(arguments, "filters", PyDict(0))
        limit == GetDefault(arguments, "limit", PyInt(DefaultLimit))
    IN  IF ~Truthy(search_query)
        THEN HandlerRaise(tool, ValueError("search_query is required"), <<>>, <<>>, FALSE)
        ELSE IF LimitInvalid(limit)
        THEN HandlerRaise(tool, ValueError("limit must be an integer between 1 and 50"),
                          <<>>, <<>>, FALSE)
        ELSE IF Truthy(filters) /\ ~IsInstanceDict(filters)
        THEN HandlerRaise(tool, ValueError("filters must be a dictionary"), <<>>, <<>>, FALSE)
        ELSE LET kw == [search_query |-> search_query,
                        user_id |-> GetDefault(arguments, "user_id", DefaultUser),
                        filters |-> filters,
                        limit |-> limit]
             IN  HandlerInvoke(tool, tool, kw, client_search_memory(_client, kw))

\* action not in ["update", "delete"]
ActionInvalid(action) ==
    ~(IsInstanceStr(action) /\ action.txt \in {"update", "delete"})

\* manage_memory, action == "update": require new_content, then update_memory
manage_update_call_first(tool, memory_id, new_content, user_id, _client) ==
    LET kw == [memory_id |-> memory_id, new_content |-> new_content, user_id |-> user_id]
        r == client_update_memory(_client, kw)
    IN  IF ~Truthy(new_content)
        THEN HandlerRaise(tool, ValueError("new_content is required for update action"),
                          <<Call("update_memory", kw)>>, <<LogRecord(tool, TRUE)>>, r.contacted)
        ELSE HandlerInvoke(tool, "update_memory", kw, r)

manage_update_unchecked(tool, memory_id, new_content, user_id, _client) ==
    LET kw == [memory_id |-> memory_id, new_content |-> new_content, user_id |-> user_id]
    IN  HandlerInvoke(tool, "update_memory", kw, client_update_memory(_client, kw))

manage_update(tool, memory_id, new_content, user_id, _client) ==
    IF ~Truthy(new_content)
    THEN HandlerRaise(tool, ValueError("new_content is required for update action"),
                      <<>>, <<LogRecord(tool, TRUE)>>, FALSE)
    ELSE LET kw == [memory_id |-> memory_id, new_content |-> new_content,
                    user_id |-> user_id]
         IN  HandlerInvoke(tool, "update_memory", kw, client_update_memory(_client, kw))

\* manage_memory, action == "delete": delete_memory
manage_delete(tool, memory_id, user_id, _client) ==
    LET kw == [memory_id |-> memory_id, user_id |-> user_id]
    IN  HandlerInvoke(tool, "delete_memory", kw, client_delete_memory(_client, kw))

tools_manage_memory_id_first(arguments, _client) ==
    LET tool == "manage_memory"
        action == Get(arguments, "action")
        memory_id == Get(arguments, "memory_id")
        user_id == GetDefault(arguments, "user_id", DefaultUser)
    IN  IF ~Truthy(memory_id)
        THEN HandlerRaise(tool, ValueError("memory_id is required"), <<>>, <<>>, FALSE)
        ELSE IF ActionInvalid(action)
        THEN HandlerRaise(tool, ValueError("action must be 'update' or 'delete'"),
                          <<>>, <<>>, FALSE)
        ELSE IF action.txt = "update"
        THEN manage_update(tool, memory_id, Get(arguments, "new_content"), user_id, _client)
        ELSE manage_delete(tool, memory_id, user_id, _client)

tools_manage_memory(arguments, _client) ==
    LET tool == "manage_memory"
        action == Get(arguments, "action")
        memory_id == Get(arguments, "memory_id")
        user_id == GetDefault(arguments, "user_id", DefaultUser)
    IN  IF ActionInvalid(action)
        THEN HandlerRaise(tool, ValueError("action must be 'update' or 'delete'"),
                          <<>>, <<>>, FALSE)
        ELSE IF ~Truthy(memory_id)
        THEN HandlerRaise(tool, ValueError("memory_id is required"), <<>>, <<>>, FALSE)
        ELSE IF action.txt = "update"
        THEN manage_update(tool, memory_id, Get(arguments, "new_content"), user_id, _client)
        ELSE manage_delete(tool, memory_id, user_id, _client)

tools_get_memory_stats(arguments, _client) ==
    LET tool == "get_memory_stats"
        include_details == GetDefault(arguments, "include_details", PyBool(FALSE))
    IN  IF ~IsInstanceBool(include_details)
        THEN HandlerRaise(tool, ValueError("include_details must be a boolean"),
                          <<>>, <<>>, FALSE)
        ELSE LET kw == [user_id |-> GetDefault(arguments, "user_id", DefaultUser),
                        include_details |-> include_details]
             IN  HandlerInvoke(tool, tool, kw, client_get_memory_stats(_client, kw))

(***************************************************************************)
(* server.py: the call_tool dispatcher.  The text of a result is modelled  *)
(* by its prefix, the message of the exception and the mapping converted   *)
(* by str(result).                                                         *)
(***************************************************************************)
ToolNames == {"memorize_conversation", "retrieve_memory", "search_memory",
              "manage_memory", "get_memory_stats"}

NoHandler == [exc |-> NoExc, ret |-> NoRet, calls |-> <<>>, logs |-> <<>>,
              contacted |-> FALSE]

CallToolResult(prefix, msg, payload, err) ==
    [text |-> [prefix |-> prefix, msg |-> msg, payload |-> payload], isError |-> err,
     returned |-> TRUE]

\* list_tools: the "required" list each tool advertises
Required(name) ==
    CASE name = "memorize_conversation" -> <<"conversation">>
      [] name = "retrieve_memory" -> <<"query">>
      [] name = "search_memory" -> <<"search_query">>
      [] name = "manage_memory" -> <<"action", "memory_id">>
      [] OTHER -> <<>>

Route_fallthrough(name, arguments, _client, backendFails) ==
    CASE name = "memorize_conversation" ->
             [handler |-> name,
              h |-> tools_memorize_conversation(arguments, _client, backendFails)]
      [] name = "retrieve_memory" ->
             [handler |-> name, h |-> tools_retrieve_memory(arguments, _client)]
      [] name = "search_memory" ->
             [handler |-> name, h |-> tools_search_memory(arguments, _client)]
      [] name = "manage_memory" ->
             [handler |-> name, h |-> tools_manage_memory(arguments, _client)]
      [] OTHER ->
             [handler |-> "get_memory_stats",
              h |-> tools_get_memory_stats(arguments, _client)]

\* the if/elif chain: which handler is invoked ("none" if none) and what it does
Route(name, arguments, _client, backendFails) ==
    CASE name = "memorize_conversation" ->
             [handler |-> name,
              h |-> tools_memorize_conversation(arguments, _client, backendFails)]
      [] name = "retrieve_memory" ->
             [handler |-> name, h |-> tools_retrieve_memory(arguments, _client)]
      [] name = "search_memory" ->
             [handler |-> name, h |-> tools_search_memory(arguments, _client)]
      [] name = "manage_memory" ->
             [handler |-> name, h |-> tools_manage_memory(arguments, _client)]
      [] name = "get_memory_stats" ->
             [handler |-> name, h |-> tools_get_memory_stats(arguments, _client)]
      [] OTHER ->
             [handler |-> "none",
              h |-> [NoHandler EXCEPT !.exc = ValueError("Unknown tool: " \o name)]]

\* the classes "except Exception" catches
IsException(type) ==
    type \in {"ValueError", "TypeError", "RuntimeError", "ConnectionError"}

NoResult == [text |-> [prefix |-> "", msg |-> "", payload |-> NoRet], isError |-> FALSE,
             returned |-> FALSE]

Respond_value_error_only(exc, ret) ==
    IF exc = NoExc
    THEN [result |-> CallToolResult("", "", ret, FALSE), propagated |-> NoExc]
    ELSE IF exc.type = "ValueError"
    THEN [result |-> CallToolResult("Error: ", exc.msg, NoRet, TRUE), propagated |-> NoExc]
    ELSE [result |-> NoResult, propagated |-> exc]

Respond_unflagged(exc, ret) ==
    IF exc = NoExc
    THEN [result |-> CallToolResult("", "", ret, FALSE), propagated |-> NoExc]
    ELSE IF exc.type = "ValueError"
    THEN [result |-> CallToolResult("Error: ", exc.msg, NoRet, TRUE), propagated |-> NoExc]
    ELSE [result |-> CallToolResult("Internal error: ", exc.msg, NoRet, FALSE),
          propagated |-> NoExc]

\* the try/except of call_tool: the result returned, or the exception that
\* propagates to the serving loop
Respond(exc, ret) ==
    IF exc = NoExc
    THEN [result |-> CallToolResult("", "", ret, FALSE), propagated |-> NoExc]
    ELSE IF exc.type = "ValueError"
    THEN [result |-> CallToolResult("Error: ", exc.msg, NoRet, TRUE), propagated |-> NoExc]
    ELSE IF IsException(exc.type)
    THEN [result |-> CallToolResult("Internal error: ", exc.msg, NoRet, TRUE),
          propagated |-> NoExc]
    ELSE [result |-> NoResult, propagated |-> exc]

call_tool(name, arguments, _client, backendFails) ==
    LET r == Route(name, arguments, _client, backendFails)
        out == Respond(r.h.exc, r.h.ret)
    IN  [name |-> name, arguments |-> arguments, handler |-> r.handler,
         h |-> r.h, result |-> out.result, propagated |-> out.propagated]

NoCall == [name |-> "", arguments |-> <<>>, handler |-> "none", h |-> NoHandler,
           result |-> NoResult, propagated |-> NoExc]

(***************************************************************************)
(* The argument mappings the callers send: every parameter is absent or    *)
(* takes one of a few values of the kinds JSON can carry.                  *)
(***************************************************************************)
MkArgs(r) == [key \in {x \in DOMAIN r : r[x] # Absent} |-> r[key]]

Text(t, n) == PyStr(t, n)
LongText(n) == PyStr("long", n)

ConversationValues ==
    {Absent, Text("", 0), Text("hi", 2), PyInt(5), PyList(1)}
    \cup {LongText(ConversationLimit + d) : d \in 0..OverLong}
    \cup {LongText(ConversationLimit - 1)}
NameValues == {Absent, Text("u1", 2)}
QueryValues == {Absent, Text("", 0), Text("q", 1)}
LimitValues ==
    {Absent, PyInt(0), PyInt(1), PyInt(50), PyInt(51), PyInt(-1),
     PyBool(TRUE), PyBool(FALSE), Text("5", 1), PyFloat(25), None}
FilterValues == {Absent, PyDict(0), PyDict(1), Text("", 0), Text("x", 1), PyList(0), PyInt(0)}
ActionValues == {Absent, Text("update", 6), Text("delete", 6), Text("bogus", 5), None}
MemoryIdValues == {Absent, Text("", 0), Text("mem_001", 7)}
ContentValues == {Absent, Text("", 0), Text("new", 3)}
DetailValues == {Absent, PyBool(TRUE), PyBool(FALSE), Text("yes", 3), PyInt(1), None}

\* the agent is named by both of its parameters or by neither
AgentValues == {<<Absent, Absent>>, <<Text("a1", 2), Text("Bot", 3)>>}
MemorizeArgs ==
    {MkArgs([conversation |-> c, user_id |-> u, user_name |-> un, agent_id |-> a[1],
             agent_name |-> a[2]]) :
        c \in ConversationValues, u \in NameValues, un \in {Absent, Text("Ann", 3)},
        a \in AgentValues}
RetrieveArgs ==
    {MkArgs([query |-> q, user_id |-> u, limit |-> l]) :
        q \in QueryValues, u \in NameValues, l \in LimitValues}
\* every filters value with a few limits, and every limit with a few filters
SearchCombos ==
    (FilterValues \X {Absent, PyInt(50), PyInt(51)})
    \cup ({Absent, PyDict(1)} \X LimitValues)
SearchArgs ==
    {MkArgs([search_query |-> q, user_id |-> u, filters |-> c[1], limit |-> c[2]]) :
        q \in QueryValues \ {Text("", 0)}, u \in NameValues, c \in SearchCombos}
ManageArgs ==
    {MkArgs([action |-> a, memory_id |-> m, new_content |-> c, user_id |-> u]) :
        a \in ActionValues, m \in MemoryIdValues, c \in ContentValues, u \in NameValues}
StatsArgs ==
    {MkArgs([user_id |-> u, include_details |-> d]) : u \in NameValues, d \in DetailValues}

\* only memorize_conversation reaches the memU service; the other adapter
\* methods are fixed-latency placeholders that cannot fail
FailureChoices(name) == IF name = "memorize_conversation" THEN BOOLEAN ELSE {FALSE}

UnknownNames == {"forget_memory", "Manage_Memory"}

ArgsOf(name) ==
    CASE name = "memorize_conversation" -> MemorizeArgs
      [] name = "retrieve_memory" -> RetrieveArgs
      [] name = "search_memory" -> SearchArgs
      [] name = "manage_memory" -> ManageArgs
      [] name = "get_memory_stats" -> StatsArgs
      [] OTHER -> {MkArgs([action |-> a, memory_id |-> m]) :
                      a \in {Absent, Text("delete", 6)}, m \in {Absent, Text("mem_001", 7)}}

(***************************************************************************)
(* The state of one server process.                                        *)
(***************************************************************************)
VARIABLES
    memu_api_key,   \* Config.memu_api_key
    _max_retries,   \* MemuClientWrapper._max_retries
    _base_delay,    \* MemuClientWrapper._base_delay
    _client,        \* MemuClientWrapper._client, the session handle
    _retry_count,   \* MemuClientWrapper._retry_count
    pc,             \* where MemuMCPServer.run() stands
    attempt,        \* the loop variable of initialize()
    attemptLog,     \* outcome of every connection attempt made so far
    sleeps,         \* the delays initialize() has slept, in order
    runExc,         \* the exception with which run() ends
    exit_code,      \* the exit status main() gives the process
    last,           \* the last call_tool request and everything it did
    memu_client,    \* MemuMCPAPI.memu_client, the wrapper the HTTP server holds
    response,       \* the last response of the HTTP server
    default_user_id,    \* Config.default_user_id
    default_agent_id,   \* Config.default_agent_id
    listed,         \* the last list_tools response
    tasks           \* the call_tool coroutine of each caller

vars == <<memu_api_key, _max_retries, _base_delay, _client, _retry_count, pc,
          attempt, attemptLog, sleeps, runExc, exit_code, last, memu_client, response,
          default_user_id, default_agent_id, listed, tasks>>

\* the configured defaults and the catalog last sent
catalogVars == <<default_user_id, default_agent_id, listed>>
NoList == <<>>

\* the callers of call_tool and the coroutine of a caller that has sent nothing
Callers == 1..MaxCallers
NoTask == [state |-> "idle", name |-> "", arguments |-> <<>>, result |-> NoResult,
           during |-> {}]

\* the state of the HTTP server, which the stream server does not have
apiVars == <<memu_client, response>>
NoWrapper == "None"
Wrapper == "MemuClientWrapper"
NoResponse == [path |-> "", status |-> 0, body |-> [status |-> "", memu_connection |-> ""],
               probed |-> FALSE, elapsed |-> 0, probe |-> NoExc]

ApiKeys == {"", "key"}
BaseDelays == {1, DefaultBaseDelay}
Running == -1

RECURSIVE Pow2(_)
Pow2(n) == IF n = 0 THEN 1 ELSE 2 * Pow2(n - 1)

RECURSIVE Sum(_)
Sum(q) == IF q = <<>> THEN 0 ELSE Head(q) + Sum(Tail(q))

validate_required_fields_accepts_empty(key) == NoExc

\* Config.validate_required_fields: the exception raised, NoExc when it returns True
validate_required_fields(key) ==
    IF key = "" THEN ValueError("Required configuration field missing: memu_api_key")
    ELSE NoExc

\* _test_connection: TRUE when it returns, FALSE when it raises
test_connection == TRUE

\* the exponential backoff of initialize()
BackoffDelay_constant(base, k) == base

BackoffDelay(base, k) == base * Pow2(k)

\* whether a failed attempt is followed by another one
RetriesRemain_one_less(k, max) == k < max - 1

RetriesRemain(k, max) == k < max

Init ==
    /\ memu_api_key \in ApiKeys
    /\ _max_retries \in 0..MaxRetriesBound
    /\ _base_delay \in BaseDelays
    /\ _client = NoClient
    /\ _retry_count = 0
    /\ pc = "start"
    /\ attempt = 0
    /\ attemptLog = <<>>
    /\ sleeps = <<>>
    /\ runExc = NoExc
    /\ exit_code = Running
    /\ last = NoCall
    /\ memu_client = NoWrapper
    /\ response = NoResponse
    /\ default_user_id = "default_user"
    /\ default_agent_id = "default_agent"
    /\ listed = NoList
    /\ tasks = [c \in Callers |-> NoTask]

\* run(): validate_required_fields(), then enter initialize()
Validate ==
    /\ pc = "start"
    /\ LET e == validate_required_fields(memu_api_key)
       IN  IF e = NoExc
           THEN pc' = "initialize" /\ runExc' = runExc
           ELSE pc' = "finally" /\ runExc' = e
    /\ UNCHANGED <<memu_api_key, _max_retries, _base_delay, _client, _retry_count,
                   attempt, attemptLog, sleeps, exit_code, last>>
    /\ UNCHANGED <<apiVars, catalogVars, tasks>>

Attempt_serve_anyway(created) ==
    /\ pc = "initialize"
    /\ attempt <= _max_retries
    /\ _client' = IF created THEN MemuClient ELSE _client
    /\ IF created /\ test_connection
       THEN /\ attemptLog' = Append(attemptLog, "ok")
            /\ _retry_count' = 0
            /\ pc' = "serving"
       ELSE /\ attemptLog' = Append(attemptLog, "fail")
            /\ _retry_count' = _retry_count
            /\ pc' = IF RetriesRemain(attempt, _max_retries) THEN "backoff" ELSE "serving"
    /\ UNCHANGED <<memu_api_key, _max_retries, _base_delay, attempt, sleeps,
                   runExc, exit_code, last>>
    /\ UNCHANGED <<apiVars, catalogVars, tasks>>

\* initialize(): one iteration of the loop up to its return, sleep or raise;
\* created says whether the MemuClient constructor returned
Attempt(created) ==
    /\ pc = "initialize"
    /\ attempt <= _max_retries
    /\ _client' = IF created THEN MemuClient ELSE _client
    /\ IF created /\ test_connection
       THEN /\ attemptLog' = Append(attemptLog, "ok")
            /\ _retry_count' = 0
            /\ pc' = "serving"
            /\ runExc' = runExc
       ELSE /\ attemptLog' = Append(attemptLog, "fail")
            /\ _retry_count' = _retry_count
            /\ IF RetriesRemain(attempt, _max_retries)
               THEN pc' = "backoff" /\ runExc' = runExc
               ELSE /\ pc' = "finally"
                    /\ runExc' = ConnectionError("Failed to initialize memU client")
    /\ UNCHANGED <<memu_api_key, _max_retries, _base_delay, attempt, sleeps,
                   exit_code, last>>
    /\ UNCHANGED <<apiVars, catalogVars, tasks>>

Backoff_after_increment ==
    /\ pc = "backoff"
    /\ sleeps' = Append(sleeps, BackoffDelay(_base_delay, attempt + 1))
    /\ attempt' = attempt + 1
    /\ pc' = "initialize"
    /\ UNCHANGED <<memu_api_key, _max_retries, _base_delay, _client, _retry_count,
                   attemptLog, runExc, exit_code, last>>
    /\ UNCHANGED <<apiVars, catalogVars, tasks>>

\* initialize(): await asyncio.sleep(delay), then the next iteration
Backoff ==
    /\ pc = "backoff"
    /\ sleeps' = Append(sleeps, BackoffDelay(_base_delay, attempt))
    /\ attempt' = attempt + 1
    /\ pc' = "initialize"
    /\ UNCHANGED <<memu_api_key, _max_retries, _base_delay, _client, _retry_count,
                   attemptLog, runExc, exit_code, last>>
    /\ UNCHANGED <<apiVars, catalogVars, tasks>>

CallTool_drops_client(name, arguments, backendFails) ==
    /\ pc = "serving"
    /\ last' = call_tool(name, arguments, _client, backendFails)
    /\ pc' = IF last'.propagated = NoExc THEN "serving" ELSE "finally"
    /\ runExc' = last'.propagated
    /\ _client' = IF last'.h.calls # <<>> /\ last'.h.exc # NoExc THEN NoClient ELSE _client
    /\ UNCHANGED <<memu_api_key, _max_retries, _base_delay, _retry_count,
                   attempt, attemptLog, sleeps, exit_code>>
    /\ UNCHANGED <<apiVars, catalogVars, tasks>>

\* the stream server serves one call_tool request
CallTool(name, arguments, backendFails) ==
    /\ pc = "serving"
    /\ last' = call_tool(name, arguments, _client, backendFails)
    /\ pc' = IF last'.propagated = NoExc THEN "serving" ELSE "finally"
    /\ runExc' = last'.propagated
    /\ UNCHANGED <<memu_api_key, _max_retries, _base_delay, _client, _retry_count,
                   attempt, attemptLog, sleeps, exit_code>>
    /\ UNCHANGED <<apiVars, catalogVars, tasks>>

\* the client closes the stream: mcp_server.run() returns
StreamClosed ==
    /\ pc = "serving"
    /\ pc' = "finally"
    /\ UNCHANGED <<memu_api_key, _max_retries, _base_delay, _client, _retry_count,
                   attempt, attemptLog, sleeps, runExc, exit_code, last>>
    /\ UNCHANGED <<apiVars, catalogVars, tasks>>

\* Ctrl-C while serving: asyncio.run cancels run() and raises KeyboardInterrupt
Interrupt ==
    /\ pc = "serving"
    /\ pc' = "finally"
    /\ runExc' = Exc("KeyboardInterrupt", "")
    /\ UNCHANGED <<memu_api_key, _max_retries, _base_delay, _client, _retry_count,
                   attempt, attemptLog, sleeps, exit_code, last>>
    /\ UNCHANGED <<apiVars, catalogVars, tasks>>

\* MemuClientWrapper.close(): the handle afterwards
close(handle) == IF handle # NoClient THEN NoClient ELSE handle

\* MemuClientWrapper.close(): the exception it raises, NoExc when it returns
close_exc_unguarded(handle) ==
    IF handle = NoClient
    THEN Exc("AttributeError", "'NoneType' object has no attribute 'close'")
    ELSE NoExc

close_exc(handle) == NoExc

\* the finally clause of run()
Close ==
    /\ pc = "finally"
    /\ _client' = close(_client)
    /\ runExc' = IF close_exc(_client) = NoExc THEN runExc ELSE close_exc(_client)
    /\ pc' = "returned"
    /\ UNCHANGED <<memu_api_key, _max_retries, _base_delay, _retry_count,
                   attempt, attemptLog, sleeps, exit_code, last>>
    /\ UNCHANGED <<apiVars, catalogVars, tasks>>

ExitCode_interrupt_fails(e) == IF e = NoExc THEN 0 ELSE 1

\* main(): the exit status after asyncio.run(server.run())
ExitCode(e) ==
    IF e = NoExc THEN 0
    ELSE IF e.type = "KeyboardInterrupt" THEN 0
    ELSE 1

Exit ==
    /\ pc = "returned"
    /\ exit_code' = ExitCode(runExc)
    /\ pc' = "exited"
    /\ UNCHANGED <<memu_api_key, _max_retries, _base_delay, _client, _retry_count,
                   attempt, attemptLog, sleeps, runExc, last>>
    /\ UNCHANGED <<apiVars, catalogVars, tasks>>

Next ==
    \/ Validate
    \/ \E created \in BOOLEAN : Attempt(created)
    \/ Backoff
    \/ \E name \in ToolNames \cup UnknownNames : \E arguments \in ArgsOf(name) :
           \E backendFails \in FailureChoices(name) :
              CallTool(name, arguments, backendFails)
    \/ StreamClosed
    \/ Interrupt
    \/ Close
    \/ Exit

Spec == Init /\ [][Next]_vars

(***************************************************************************)
(* api.py: the HTTP server.  It builds its own MemuClientWrapper, lets     *)
(* initialize() run (a failure is logged and swallowed), answers           *)
(* GET /health and closes the wrapper when it stops.                       *)
(***************************************************************************)
HealthTimeout == 5

\* MemuMCPAPI.test_memu_connection: the exception raised, NoExc when it returns True
test_memu_connection(mc) ==
    IF mc = NoWrapper THEN ConnectionError("memU client not initialized") ELSE NoExc

\* asyncio.wait_for(probe, timeout=5.0): the outcome of the probe when it
\* completes within the timeout, asyncio.TimeoutError when it does not
wait_for(probe, elapsed, timeout) ==
    IF elapsed > timeout THEN Exc("TimeoutError", "") ELSE probe

\* the memu_connection field health_handler reports
memu_connection_timeout_as_error(mc, elapsed) ==
    IF mc # NoWrapper
    THEN LET e == wait_for(test_memu_connection(mc), elapsed, HealthTimeout)
         IN  IF e = NoExc THEN "ok"
             ELSE "error: " \o e.msg
    ELSE "not_initialized"

memu_connection(mc, elapsed) ==
    IF mc # NoWrapper
    THEN LET e == wait_for(test_memu_connection(mc), elapsed, HealthTimeout)
         IN  IF e = NoExc THEN "ok"
             ELSE IF e.type = "TimeoutError" THEN "timeout"
             ELSE "error: " \o e.msg
    ELSE "not_initialized"

\* the HTTP status health_handler answers with
health_status_503_on_probe_failure(conn) == IF conn \in {"ok", "not_initialized"} THEN 200 ELSE 503

health_status(conn) == 200

\* MemuMCPAPI.health_handler
health_handler(mc, elapsed) ==
    LET conn == memu_connection(mc, elapsed)
    IN  [path |-> "/health", status |-> health_status(conn),
         body |-> [status |-> "healthy", memu_connection |-> conn],
         probed |-> mc # NoWrapper, elapsed |-> elapsed,
         probe |-> IF mc # NoWrapper THEN test_memu_connection(mc) ELSE NoExc]

\* how long the probe of one health check takes, in seconds
ProbeTimes == {0, HealthTimeout, HealthTimeout + 1}

InitApi ==
    /\ memu_api_key \in ApiKeys
    /\ _max_retries \in 0..MaxRetriesBound
    /\ _base_delay \in BaseDelays
    /\ _client = NoClient
    /\ _retry_count = 0
    /\ pc = "api_start"
    /\ attempt = 0
    /\ attemptLog = <<>>
    /\ sleeps = <<>>
    /\ runExc = NoExc
    /\ exit_code = Running
    /\ last = NoCall
    /\ memu_client = NoWrapper
    /\ response = NoResponse
    /\ default_user_id = "default_user"
    /\ default_agent_id = "default_agent"
    /\ listed = NoList
    /\ tasks = [c \in Callers |-> NoTask]

\* initialize_memu_client(): build the wrapper and enter initialize(); when the
\* constructor raises (an unparsable MAX_RETRY_ATTEMPTS) the exception is
\* swallowed and memu_client stays None
ApiStartup(constructed) ==
    /\ pc = "api_start"
    /\ memu_client' = IF constructed THEN Wrapper ELSE NoWrapper
    /\ pc' = IF constructed THEN "initialize" ELSE "http"
    /\ UNCHANGED <<memu_api_key, _max_retries, _base_delay, _client, _retry_count,
                   attempt, attemptLog, sleeps, runExc, exit_code, last, response>>
    /\ UNCHANGED <<catalogVars, tasks>>

\* initialize_memu_client(): initialize() returned, or raised ConnectionError
\* which is logged and swallowed; the server starts listening
ApiInitialized ==
    /\ pc \in {"serving", "finally"}
    /\ pc' = "http"
    /\ runExc' = NoExc
    /\ UNCHANGED <<memu_api_key, _max_retries, _base_delay, _client, _retry_count,
                   attempt, attemptLog, sleeps, exit_code, last, memu_client, response>>
    /\ UNCHANGED <<catalogVars, tasks>>

\* GET /health
Health(elapsed) ==
    /\ pc = "http"
    /\ response' = health_handler(memu_client, elapsed)
    /\ UNCHANGED <<memu_api_key, _max_retries, _base_delay, _client, _retry_count, pc,
                   attempt, attemptLog, sleeps, runExc, exit_code, last, memu_client>>
    /\ UNCHANGED <<catalogVars, tasks>>

\* cleanup(): close the wrapper if there is one
ApiCleanup ==
    /\ pc = "http"
    /\ _client' = IF memu_client # NoWrapper THEN close(_client) ELSE _client
    /\ pc' = "api_stopped"
    /\ UNCHANGED <<memu_api_key, _max_retries, _base_delay, _retry_count,
                   attempt, attemptLog, sleeps, runExc, exit_code, last, memu_client,
                   response>>
    /\ UNCHANGED <<catalogVars, tasks>>

NextApi ==
    \/ \E constructed \in BOOLEAN : ApiStartup(constructed)
    \/ \E created \in BOOLEAN : Attempt(created)
    \/ Backoff
    \/ ApiInitialized
    \/ \E elapsed \in ProbeTimes : Health(elapsed)
    \/ ApiCleanup

SpecApi == InitApi /\ [][NextApi]_vars

(***************************************************************************)
(* server.py: the catalog of list_tools next to the dispatcher, for the    *)
(* values DEFAULT_USER_ID and DEFAULT_AGENT_ID can give the configuration. *)
(***************************************************************************)
\* the default the schemas advertise for limit
AdvertisedLimit == 10

\* a configured identifier as a Python string
ConfigStr(t) ==
    PyStr(t, CASE t = "default_user" -> 12
               [] t = "default_agent" -> 13
               [] OTHER -> 5)

\* (default_user_id, default_agent_id): the built-in values and configured ones
ConfigDefaults == {<<"default_user", "default_agent">>, <<"alice", "agent">>}

\* list_tools(): name, "required" list and advertised defaults of each tool
list_tools(user, agent) ==
    <<[name |-> "memorize_conversation",
       required |-> Required("memorize_conversation"),
       defaults |-> [user_id |-> ConfigStr(user), agent_id |-> ConfigStr(agent)]],
      [name |-> "retrieve_memory",
       required |-> Required("retrieve_memory"),
       defaults |-> [user_id |-> ConfigStr(user), limit |-> PyInt(AdvertisedLimit)]],
      [name |-> "search_memory",
       required |-> Required("search_memory"),
       defaults |-> [user_id |-> ConfigStr(user), limit |-> PyInt(AdvertisedLimit)]],
      [name |-> "manage_memory",
       required |-> Required("manage_memory"),
       defaults |-> [user_id |-> ConfigStr(user)]],
      [name |-> "get_memory_stats",
       required |-> Required("get_memory_stats"),
       defaults |-> [user_id |-> ConfigStr(user), include_details |-> PyBool(FALSE)]]>>

\* the calls that supply required parameters only, or leave some of them out
CatalogArgs(name) ==
    {a \in ArgsOf(name) :
        DOMAIN a \subseteq {Required(name)[i] : i \in 1..Len(Required(name))}}

InitCatalog ==
    /\ memu_api_key \in ApiKeys
    /\ _max_retries \in 0..MaxRetriesBound
    /\ _base_delay \in BaseDelays
    /\ _client = NoClient
    /\ _retry_count = 0
    /\ pc = "start"
    /\ attempt = 0
    /\ attemptLog = <<>>
    /\ sleeps = <<>>
    /\ runExc = NoExc
    /\ exit_code = Running
    /\ last = NoCall
    /\ memu_client = NoWrapper
    /\ response = NoResponse
    /\ \E d \in ConfigDefaults : default_user_id = d[1] /\ default_agent_id = d[2]
    /\ listed = NoList
    /\ tasks = [c \in Callers |-> NoTask]

\* the stream server serves one list_tools request
ListTools ==
    /\ pc = "serving"
    /\ listed' = list_tools(default_user_id, default_agent_id)
    /\ UNCHANGED <<memu_api_key, _max_retries, _base_delay, _client, _retry_count, pc,
                   attempt, attemptLog, sleeps, runExc, exit_code, last>>
    /\ UNCHANGED <<apiVars, default_user_id, default_agent_id, tasks>>

NextCatalog ==
    \/ Validate
    \/ \E created \in BOOLEAN : Attempt(created)
    \/ Backoff
    \/ ListTools
    \/ \E name \in ToolNames \cup UnknownNames :
          \E arguments \in CatalogArgs(name) : CallTool(name, arguments, FALSE)
    \/ StreamClosed
    \/ Interrupt
    \/ Close
    \/ Exit

SpecCatalog == InitCatalog /\ [][NextCatalog]_vars

(***************************************************************************)
(* Calls in flight together.  call_tool is a coroutine; it runs without    *)
(* yielding up to the await inside the adapter method (asyncio.to_thread   *)
(* or asyncio.sleep) and is resumed when that await completes.  The event  *)
(* loop runs the coroutines of the callers in any order.                   *)
(***************************************************************************)
\* the calls the callers send
ConcurrentCalls ==
    {[name |-> "memorize_conversation", arguments |-> MkArgs([conversation |-> Text("hi", 2)])],
     [name |-> "retrieve_memory", arguments |-> MkArgs([query |-> Text("q", 1)])],
     [name |-> "retrieve_memory", arguments |-> MkArgs([limit |-> PyInt(51)])],
     [name |-> "get_memory_stats", arguments |-> MkArgs([include_details |-> PyBool(TRUE)])],
     [name |-> "forget_memory", arguments |-> MkArgs([memory_id |-> Absent])]}

\* whether the call reaches the await of an adapter method
Suspends(name, arguments, handle) ==
    LET c == call_tool(name, arguments, handle, FALSE)
    IN  c.h.calls # <<>> /\ c.h.exc # RuntimeError("Client not initialized")

Dispatch_serialized(c, name, arguments) ==
    /\ pc = "serving"
    /\ tasks[c].state = "idle"
    /\ \A d \in Callers : tasks[d].state # "suspended"
    /\ tasks' = [tasks EXCEPT ![c] =
           [state |-> IF Suspends(name, arguments, _client) THEN "suspended" ELSE "delivered",
            name |-> name,
            arguments |-> arguments,
            result |-> IF Suspends(name, arguments, _client) THEN NoResult
                       ELSE call_tool(name, arguments, _client, FALSE).result,
            during |-> {d \in Callers : tasks[d].state = "suspended"}]]
    /\ UNCHANGED <<memu_api_key, _max_retries, _base_delay, _client, _retry_count, pc,
                   attempt, attemptLog, sleeps, runExc, exit_code, last>>
    /\ UNCHANGED <<apiVars, catalogVars>>

\* a caller sends a request: call_tool runs up to its first await, or to its
\* result when it fails before one
Dispatch(c, name, arguments) ==
    /\ pc = "serving"
    /\ tasks[c].state = "idle"
    /\ tasks' = [tasks EXCEPT ![c] =
           [state |-> IF Suspends(name, arguments, _client) THEN "suspended" ELSE "delivered",
            name |-> name,
            arguments |-> arguments,
            result |-> IF Suspends(name, arguments, _client) THEN NoResult
                       ELSE call_tool(name, arguments, _client, FALSE).result,
            during |-> {d \in Callers : tasks[d].state = "suspended"}]]
    /\ UNCHANGED <<memu_api_key, _max_retries, _base_delay, _client, _retry_count, pc,
                   attempt, attemptLog, sleeps, runExc, exit_code, last>>
    /\ UNCHANGED <<apiVars, catalogVars>>

\* the await of a suspended call completes: the adapter method returns or
\* raises and call_tool returns the result to its caller
Resume(c, backendFails) ==
    /\ pc = "serving"
    /\ tasks[c].state = "suspended"
    /\ backendFails \in FailureChoices(tasks[c].name)
    /\ tasks' = [tasks EXCEPT ![c] =
           [@ EXCEPT !.state = "delivered",
                     !.result = call_tool(tasks[c].name, tasks[c].arguments, _client,
                                          backendFails).result]]
    /\ UNCHANGED <<memu_api_key, _max_retries, _base_delay, _client, _retry_count, pc,
                   attempt, attemptLog, sleeps, runExc, exit_code, last>>
    /\ UNCHANGED <<apiVars, catalogVars>>

NextConcurrent ==
    \/ Validate
    \/ \E created \in BOOLEAN : Attempt(created)
    \/ Backoff
    \/ \E c \in Callers : \E call \in ConcurrentCalls : Dispatch(c, call.name, call.arguments)
    \/ \E c \in Callers : \E backendFails \in BOOLEAN : Resume(c, backendFails)

SpecConcurrent == Init /\ [][NextConcurrent]_vars

(***************************************************************************)
(* Properties.                                                             *)
(***************************************************************************)
Called(c, method) == \E i \in 1..Len(c.h.calls) : c.h.calls[i].method = method
Arg(c, key) == IF key \in DOMAIN c.arguments THEN c.arguments[key] ELSE Absent
ValidationFailure(c) == c.handler # "none" /\ c.h.exc.type = "ValueError"

\* C1: a call that ends in a ValueError raised by its MemoryTools handler has
\* invoked no MemuClientWrapper method.
C1_ValidationNeverReachesBackend ==
    ValidationFailure(last) => (last.h.calls = <<>> /\ ~last.h.contacted)

C1_Witness ==
    /\ last.handler = "manage_memory"
    /\ last.h.exc = ValueError("new_content is required for update action")
    /\ last.h.calls = <<>>

AllRequiredAbsent(c) ==
    /\ c.handler # "none"
    /\ Required(c.name) # <<>>
    /\ \A i \in 1..Len(Required(c.name)) : Required(c.name)[i] \notin DOMAIN c.arguments

LimitMsg == "limit must be an integer between 1 and 50"
HasQuery(c) ==
    \/ c.handler = "retrieve_memory" /\ Truthy(Get(c.arguments, "query"))
    \/ c.handler = "search_memory" /\ Truthy(Get(c.arguments, "search_query"))

\* C3 as stated: with the query present, retrieve_memory and search_memory fail
\* with the limit message for every limit that is not an integer or is an
\* integer outside 1..50, accept every integer in 1..50 and pass it on
\* unchanged, and treat an absent limit as 10.
C3_Original ==
    HasQuery(last) =>
        LET limit == Arg(last, "limit")
            inRange == limit.k = "int" /\ limit.n >= 1 /\ limit.n <= 50
            rejected == last.h.exc = ValueError(LimitMsg)
        IN  /\ (limit # Absent /\ ~inRange) => (rejected /\ last.h.calls = <<>>)
            /\ (limit = Absent \/ inRange) => ~rejected
            /\ last.h.calls # <<>> =>
                   last.h.calls[1].kwargs.limit = (IF limit = Absent THEN PyInt(10) ELSE limit)

\* C4: memorize_conversation forwards a conversation string of length L to the
\* adapter iff 1 <= L <= 100000; a longer one is rejected with "Conversation too
\* long" and the adapter is not called.
C4_ConversationLength ==
    (last.handler = "memorize_conversation" /\ Arg(last, "conversation").k = "str") =>
        LET conversation == Arg(last, "conversation")
            forwarded == /\ Len(last.h.calls) = 1
                         /\ last.h.calls[1].method = "memorize_conversation"
                         /\ last.h.calls[1].kwargs.conversation = conversation
        IN  /\ forwarded <=> (1 <= conversation.len /\ conversation.len <= 100000)
            /\ conversation.len >= 100001 =>
                   /\ last.h.exc = ValueError("Conversation too long (max 100,000 characters)")
                   /\ last.h.calls = <<>>

C4_Witness ==
    /\ last.handler = "memorize_conversation"
    /\ Arg(last, "conversation") = LongText(100000)
    /\ Len(last.h.calls) = 1
    /\ last.h.exc = NoExc

ManageWithId(c, action) ==
    /\ c.handler = "manage_memory"
    /\ Arg(c, "action") = PyStr(action, 6)
    /\ Arg(c, "memory_id").k = "str" /\ Arg(c, "memory_id").len > 0
    /\ Arg(c, "new_content") = Absent

\* C5: manage_memory with a non-empty memory_id and no new_content: action
\* "update" fails with "new_content is required for update action" and
\* update_memory is not invoked; action "delete" succeeds and delete_memory is
\* invoked exactly once with that memory_id and the user_id.
C5_UpdateNeedsContent ==
    /\ ManageWithId(last, "update") =>
           /\ last.h.exc = ValueError("new_content is required for update action")
           /\ ~Called(last, "update_memory")
    /\ ManageWithId(last, "delete") =>
           /\ last.h.exc = NoExc
           /\ ~last.result.isError
           /\ last.h.calls =
                  <<Call("delete_memory",
                         [memory_id |-> Arg(last, "memory_id"),
                          user_id |-> GetDefault(last.arguments, "user_id", DefaultUser)])>>

C5_Witness ==
    /\ ManageWithId(last, "update")
    /\ last.result.isError

C5_WitnessDelete ==
    /\ ManageWithId(last, "delete")
    /\ Called(last, "delete_memory")

\* C6: manage_memory with an action other than "update" and "delete", an absent
\* one included, fails with "action must be 'update' or 'delete'" whatever
\* memory_id, new_content and user_id are, and invokes neither update_memory
\* nor delete_memory.
C6_InvalidAction ==
    (/\ last.handler = "manage_memory"
     /\ Arg(last, "action") \notin {PyStr("update", 6), PyStr("delete", 6)}) =>
        /\ last.h.exc = ValueError("action must be 'update' or 'delete'")
        /\ last.h.calls = <<>>

C6_Witness ==
    /\ last.handler = "manage_memory"
    /\ Arg(last, "action") = PyStr("bogus", 5)
    /\ Arg(last, "memory_id") = Absent
    /\ last.h.exc = ValueError("action must be 'update' or 'delete'")

AllFail(log) == \A i \in 1..Len(log) : log[i] = "fail"
InInitialize == pc \in {"initialize", "backoff"}

\* C7: with max_retries = 3, initialize() keeps trying after one and after two
\* failed attempts, and when the third attempt succeeds it returns without a
\* ConnectionError, having made exactly three attempts and slept at least
\* base_delay * (1 + 2) in total.
C7_RetryThenSucceed ==
    _max_retries = 3 =>
        /\ (Len(attemptLog) \in {1, 2} /\ AllFail(attemptLog)) =>
               (InInitialize /\ runExc = NoExc)
        /\ (Len(attemptLog) >= 3 /\ SubSeq(attemptLog, 1, 3) = <<"fail", "fail", "ok">>) =>
               /\ Len(attemptLog) = 3
               /\ ~InInitialize
               /\ runExc.type # "ConnectionError"
               /\ Sum(sleeps) >= _base_delay * (1 + 2)
               /\ pc = "serving" => _client = MemuClient

C7_Witness ==
    /\ _max_retries = 3
    /\ attemptLog = <<"fail", "fail", "ok">>
    /\ pc = "serving"
    /\ Sum(sleeps) = 3 * _base_delay

\* C8: when every connection attempt fails, initialize() raises ConnectionError
\* after exactly max_retries + 1 attempts: it never makes more attempts, never
\* gives up earlier and never returns normally.
C8_ExhaustedRetriesRaise ==
    /\ Len(attemptLog) <= _max_retries + 1
    /\ (AllFail(attemptLog) /\ Len(attemptLog) = _max_retries + 1) =>
           (runExc.type = "ConnectionError" /\ pc \in {"finally", "returned", "exited"})
    /\ runExc.type = "ConnectionError" =>
           (AllFail(attemptLog) /\ Len(attemptLog) = _max_retries + 1)
    /\ (AllFail(attemptLog) /\ attemptLog # <<>>) =>
           (InInitialize \/ runExc.type = "ConnectionError")

C8_Witness ==
    /\ _max_retries = 1
    /\ attemptLog = <<"fail", "fail">>
    /\ runExc.type = "ConnectionError"
    /\ pc = "exited"

\* C9: call_tool never lets a failure reach the serving loop: whatever the name
\* and the arguments, it returns a CallToolResult, error-flagged and carrying
\* the message of the exception when the call failed, and the server goes on
\* serving.
C9_CallToolNeverPropagates ==
    [][(pc = "serving" /\ last' # last) =>
          /\ pc' = "serving"
          /\ runExc' = NoExc
          /\ last'.propagated = NoExc
          /\ last'.result.returned
          /\ last'.h.exc # NoExc =>
                 (last'.result.isError /\ last'.result.text.msg = last'.h.exc.msg)]_vars

C9_Witness ==
    /\ pc = "serving"
    /\ last.h.exc.type = "RuntimeError"
    /\ last.result.isError
    /\ last.result.text.prefix = "Internal error: "

\* C10: a name that is not one of the five catalogued names yields an
\* error-flagged result naming the unknown tool, and invokes no MemoryTools
\* handler and no adapter method.
C10_UnknownTool ==
    (last.name # "" /\ last.name \notin ToolNames) =>
        /\ last.result.isError
        /\ last.result.text.prefix = "Error: "
        /\ last.result.text.msg = "Unknown tool: " \o last.name
        /\ last.handler = "none"
        /\ last.h.calls = <<>>
        /\ last.h.logs = <<>>
        /\ ~last.h.contacted

C10_Witness ==
    /\ last.name = "forget_memory"
    /\ last.result.isError
    /\ pc = "serving"

\* C11: the result of call_tool is error-flagged iff the dispatch failed
\* (unknown name, validation failure or failure of the adapter); a successful
\* dispatch returns the mapping of the adapter as the one text payload, without
\* the flag; every call produces exactly one of the two.
C11_ErrorFlagIffFailed ==
    last.name # "" =>
        /\ last.result.returned
        /\ last.result.isError <=> (last.h.exc # NoExc)
        /\ last.h.exc = NoExc =>
               last.result.text = [prefix |-> "", msg |-> "", payload |-> last.h.ret]
        /\ last.h.exc # NoExc =>
               /\ last.result.text.payload = NoRet
               /\ last.result.text.prefix \in {"Error: ", "Internal error: "}
               /\ last.result.text.msg = last.h.exc.msg

C11_Witness ==
    /\ last.handler = "memorize_conversation"
    /\ last.h.exc.type = "TypeError"
    /\ last.result.isError

\* C12: the stream server serves calls only after initialize() returned
\* successfully; when initialize() ends in ConnectionError nothing is ever
\* served and run() ends with that error.
C12_ServeOnlyAfterInitialize ==
    /\ (pc = "serving" \/ last # NoCall) =>
           /\ attemptLog # <<>>
           /\ attemptLog[Len(attemptLog)] = "ok"
           /\ pc = "serving" => _client = MemuClient
    /\ runExc.type = "ConnectionError" =>
           (last = NoCall /\ pc \in {"finally", "returned", "exited"})
    /\ (pc \in {"returned", "exited"} /\ attemptLog # <<>> /\ AllFail(attemptLog)) =>
           runExc.type = "ConnectionError"

C12_Witness ==
    /\ pc = "returned"
    /\ runExc.type = "ConnectionError"
    /\ last = NoCall

\* C13: close() raises nothing and leaves the session handle unset, also on a
\* client that was never initialized or is already closed, and closing twice
\* gives the same state as closing once.
C13_CloseIdempotent ==
    /\ close(_client) = NoClient
    /\ close_exc(_client) = NoExc
    /\ close(close(_client)) = close(_client)
    /\ close_exc(close(_client)) = NoExc
    /\ pc \in {"returned", "exited"} => _client = NoClient

C13_Witness ==
    /\ pc = "returned"
    /\ attemptLog = <<>>
    /\ _client = NoClient
    /\ runExc.type = "ValueError"

\* C14: however run() ends (stream closed, interrupt while serving, startup
\* validation failure, fatal connection failure), close() has run and the
\* session handle is released before the process exits; the exit code is 0
\* after an interrupt while serving and 1 after any other error.
C14_CloseBeforeExit ==
    /\ pc \in {"returned", "exited"} => _client = NoClient
    /\ exit_code # Running => pc = "exited"
    /\ pc = "exited" =>
           exit_code = (IF runExc = NoExc \/ runExc.type = "KeyboardInterrupt" THEN 0 ELSE 1)

C14_Witness ==
    /\ pc = "exited"
    /\ runExc.type = "KeyboardInterrupt"
    /\ exit_code = 0
    /\ _client = NoClient
    /\ attemptLog # <<>>

OptionalDefault(key) ==
    CASE key = "user_id" -> PyStr("default_user", 12)
      [] key = "user_name" -> PyStr("User", 4)
      [] key = "agent_id" -> PyStr("default_agent", 13)
      [] key = "agent_name" -> PyStr("Assistant", 9)
      [] key = "limit" -> PyInt(10)
      [] key = "filters" -> PyDict(0)
      [] key = "include_details" -> PyBool(FALSE)
      [] OTHER -> None

\* C17: in every adapter invocation each parameter that the call supplied
\* arrives unchanged, and each optional parameter that the call left out
\* arrives as its default.
C17_DefaultsAndPassThrough ==
    \A i \in 1..Len(last.h.calls) :
        LET kw == last.h.calls[i].kwargs
        IN  \A key \in DOMAIN kw :
                kw[key] = IF key \in DOMAIN last.arguments
                          THEN last.arguments[key]
                          ELSE OptionalDefault(key)

C17_Witness ==
    /\ last.handler = "memorize_conversation"
    /\ DOMAIN last.arguments = {"conversation"}
    /\ Len(last.h.calls) = 1
    /\ last.h.calls[1].kwargs.user_id = PyStr("default_user", 12)
    /\ last.h.calls[1].kwargs.agent_name = PyStr("Assistant", 9)

C17_WitnessSupplied ==
    /\ last.handler = "search_memory"
    /\ Len(last.h.calls) = 1
    /\ {"user_id", "filters", "limit"} \subseteq DOMAIN last.arguments
    /\ last.h.calls[1].kwargs.limit = PyInt(50)

\* C18: a get_memory_stats call leaves the client state as it was, the same
\* call issued again gives a payload with the same keys, and the payload has
\* "details" (memories_by_agent, memory_types, date_range) exactly when
\* include_details is true.
C18_StatsRepeatable ==
    [][(last' # last /\ last'.handler = "get_memory_stats") =>
          LET again == call_tool(last'.name, last'.arguments, _client', FALSE)
          IN  /\ UNCHANGED <<_client, _retry_count, _max_retries, _base_delay, memu_api_key>>
              /\ again.h.exc = last'.h.exc
              /\ again.h.ret.keys = last'.h.ret.keys
              /\ last'.h.exc = NoExc =>
                     /\ "details" \in last'.h.ret.keys <=>
                            (Arg(last', "include_details") = PyBool(TRUE))
                     /\ last'.h.ret.details =
                            IF "details" \in last'.h.ret.keys
                            THEN {"memories_by_agent", "memory_types", "date_range"}
                            ELSE {}]_vars

C18_Witness ==
    /\ last.handler = "get_memory_stats"
    /\ Arg(last, "include_details") = PyBool(TRUE)
    /\ "details" \in last.h.ret.keys

C18_WitnessPlain ==
    /\ last.handler = "get_memory_stats"
    /\ last.h.exc = NoExc
    /\ "details" \notin last.h.ret.keys

\* C19: with an empty API key run() fails in validate_required_fields with
\* "Required configuration field missing: memu_api_key" before any connection
\* attempt and before anything is served, and the process exits with 1; with
\* a non-empty key the validation returns.
C19_MissingKeyFailsFirst ==
    /\ memu_api_key = "" =>
           /\ attemptLog = <<>>
           /\ last = NoCall
           /\ _client = NoClient
           /\ pc \notin {"initialize", "backoff", "serving"}
           /\ pc # "start" =>
                  runExc = ValueError("Required configuration field missing: memu_api_key")
           /\ pc = "exited" => exit_code = 1
    /\ memu_api_key # "" =>
           /\ validate_required_fields(memu_api_key) = NoExc
           /\ runExc # ValueError("Required configuration field missing: memu_api_key")

C19_Witness ==
    /\ memu_api_key = ""
    /\ pc = "exited"
    /\ exit_code = 1
    /\ attemptLog = <<>>

\* the kind the contract gives a parameter
KindOf(key) ==
    CASE key = "limit" -> "int"
      [] key = "filters" -> "dict"
      [] key = "include_details" -> "bool"
      [] OTHER -> "str"

\* C20 as stated: every parameter an adapter method receives has the kind of
\* the contract (limit a true integer in 1..50), and a call carrying a value of
\* the wrong kind ends in a validation failure.
C20_Original ==
    last.handler \in ToolNames =>
        /\ \A i \in 1..Len(last.h.calls) :
               LET kw == last.h.calls[i].kwargs
               IN  \A key \in DOMAIN kw :
                       /\ kw[key].k = KindOf(key)
                       /\ key = "limit" => kw[key].n \in LimitMin..LimitMax
        /\ (\E key \in DOMAIN last.arguments : last.arguments[key].k # KindOf(key)) =>
               ValidationFailure(last)

\* C21 as stated: every call emits exactly one log_tool_call record, with
\* success true when the call succeeds and false when it fails by validation,
\* unknown name or backend error.
C21_Original ==
    last.name # "" =>
        /\ Len(last.h.logs) = 1
        /\ last.h.logs[1].success = (last.h.exc = NoExc)

\* C22: a call invokes at most one adapter method, once; when that method
\* raises, the call ends at once in an "Internal error" result; manage_memory
\* invokes update_memory for action update and delete_memory for action delete.
C22_NoRetry ==
    last.name # "" =>
        /\ Len(last.h.calls) <= 1
        /\ (last.h.calls # <<>> /\ last.h.exc # NoExc) =>
               /\ last.result.isError
               /\ last.result.text.prefix = "Internal error: "
               /\ last.result.text.msg = last.h.exc.msg
        /\ (last.handler = "manage_memory" /\ last.h.calls # <<>>) =>
               last.h.calls[1].method =
                   (IF Arg(last, "action") = PyStr("update", 6)
                    THEN "update_memory" ELSE "delete_memory")
        /\ (last.handler = "manage_memory" /\ last.h.exc = NoExc) => Len(last.h.calls) = 1

C22_Witness ==
    /\ last.handler = "memorize_conversation"
    /\ last.h.contacted
    /\ last.h.exc.type = "RuntimeError"
    /\ Len(last.h.calls) = 1
    /\ last.result.isError

C22_WitnessManage ==
    /\ last.handler = "manage_memory"
    /\ Len(last.h.calls) = 1
    /\ last.h.calls[1].method = "delete_memory"

\* C23 as stated: the retry counter is non-zero after a failed connection
\* attempt that no success has followed, and zero while the session is
\* connected.
C23_Original ==
    /\ (attemptLog # <<>> /\ attemptLog[Len(attemptLog)] = "fail") => _retry_count # 0
    /\ (attemptLog # <<>> /\ attemptLog[Len(attemptLog)] = "ok") => _retry_count = 0

\* C24: the i-th sleep of initialize() lasts base_delay * 2^(i-1) and follows
\* the failure of attempt i-1 (0-based); there are at most max_retries sleeps,
\* none before the first attempt, none after a successful attempt and none
\* after the failure of the last attempt.
C24_BackoffSchedule ==
    /\ \A i \in 1..Len(sleeps) :
           /\ sleeps[i] = _base_delay * Pow2(i - 1)
           /\ attemptLog[i] = "fail"
    /\ Len(sleeps) <= _max_retries
    /\ Len(sleeps) =
           Len(attemptLog) - (IF pc = "initialize" \/ attemptLog = <<>> THEN 0 ELSE 1)

C24_Witness ==
    /\ runExc.type = "ConnectionError"
    /\ _max_retries = 2
    /\ Len(attemptLog) = 3
    /\ sleeps = <<_base_delay, 2 * _base_delay>>

C24_WitnessSuccess ==
    /\ pc = "serving"
    /\ attemptLog = <<"fail", "ok">>
    /\ sleeps = <<_base_delay>>

\* C25: a call that invokes an adapter method, whether the method returns or
\* raises, leaves the session handle, the retry counter, max_retries and
\* base_delay as they were.
C25_AdapterLeavesSession ==
    [][(last' # last /\ last'.h.calls # <<>>) =>
          UNCHANGED <<_client, _retry_count, _max_retries, _base_delay>>]_vars

C25_Witness ==
    /\ pc = "serving"
    /\ last.h.calls # <<>>
    /\ last.h.exc.type = "RuntimeError"
    /\ _client = MemuClient

\* C26: validation reports the first violation in a fixed order.  For
\* manage_memory: the action, then memory_id, then new_content (update only);
\* for retrieve_memory and search_memory: the query before the limit.  The
\* message depends on the arguments only.
C26_FirstViolation ==
    LET action == Arg(last, "action")
        actionOk == action \in {PyStr("update", 6), PyStr("delete", 6)}
        Missing(key) == ~Truthy(Get(last.arguments, key))
    IN  /\ (last.handler = "manage_memory" /\ ~actionOk) =>
               last.h.exc = ValueError("action must be 'update' or 'delete'")
        /\ (last.handler = "manage_memory" /\ actionOk /\ Missing("memory_id")) =>
               last.h.exc = ValueError("memory_id is required")
        /\ (last.handler = "manage_memory" /\ action = PyStr("update", 6)
                /\ ~Missing("memory_id") /\ Missing("new_content")) =>
               last.h.exc = ValueError("new_content is required for update action")
        /\ (last.handler = "retrieve_memory" /\ Missing("query")) =>
               last.h.exc = ValueError("query is required")
        /\ (last.handler = "search_memory" /\ Missing("search_query")) =>
               last.h.exc = ValueError("search_query is required")
        /\ ValidationFailure(last) =>
               \A handle \in {NoClient, MemuClient}, fails \in BOOLEAN :
                   call_tool(last.name, last.arguments, handle, fails).h.exc = last.h.exc

C26_Witness ==
    /\ last.handler = "manage_memory"
    /\ Arg(last, "action") = PyStr("update", 6)
    /\ ~Truthy(Get(last.arguments, "memory_id"))
    /\ ~Truthy(Get(last.arguments, "new_content"))
    /\ last.h.exc = ValueError("memory_id is required")

C26_WitnessQuery ==
    /\ last.handler = "search_memory"
    /\ Arg(last, "search_query") = Absent
    /\ Arg(last, "limit") = PyInt(51)
    /\ last.h.exc = ValueError("search_query is required")

\* C27 as stated: with the query present and the limit valid, search_memory
\* rejects every present filters value that is not an object with "filters
\* must be a dictionary", and get_memory_stats rejects every present
\* include_details value that is not a boolean with "include_details must be a
\* boolean"; neither reaches an adapter method.
C27_Original ==
    /\ (/\ last.handler = "search_memory"
        /\ Truthy(Get(last.arguments, "search_query"))
        /\ ~LimitInvalid(GetDefault(last.arguments, "limit", PyInt(DefaultLimit)))
        /\ "filters" \in DOMAIN last.arguments
        /\ last.arguments["filters"].k # "dict") =>
           /\ last.h.exc = ValueError("filters must be a dictionary")
           /\ last.h.calls = <<>>
    /\ (/\ last.handler = "get_memory_stats"
        /\ "include_details" \in DOMAIN last.arguments
        /\ last.arguments["include_details"].k # "bool") =>
           /\ last.h.exc = ValueError("include_details must be a boolean")
           /\ last.h.calls = <<>>

\* C28 as stated: list_tools answers the same five operations in the same
\* order on every request, the advertised names are the names call_tool
\* routes to a handler, a call without an advertised required parameter fails
\* validation, and a parameter left out arrives at the adapter as the default
\* the catalog advertises for it.
C28_Original ==
    LET adv == list_tools(default_user_id, default_agent_id)
        Entry(n) == adv[CHOOSE i \in 1..Len(adv) : adv[i].name = n]
    IN  /\ listed # NoList =>
               /\ listed = adv
               /\ [i \in 1..Len(listed) |-> listed[i].name] =
                      <<"memorize_conversation", "retrieve_memory", "search_memory",
                        "manage_memory", "get_memory_stats">>
        /\ {adv[i].name : i \in 1..Len(adv)} =
               {n \in ToolNames \cup UnknownNames :
                   Route(n, <<>>, _client, FALSE).handler # "none"}
        /\ last.handler \in ToolNames =>
               /\ (\E i \in 1..Len(Entry(last.name).required) :
                       Entry(last.name).required[i] \notin DOMAIN last.arguments) =>
                      ValidationFailure(last)
               /\ \A i \in 1..Len(last.h.calls) :
                      LET kw == last.h.calls[i].kwargs
                      IN  \A key \in DOMAIN kw \cap DOMAIN Entry(last.name).defaults :
                              key \notin DOMAIN last.arguments =>
                                  kw[key] = Entry(last.name).defaults[key]

\* C29: while the call of one caller is suspended in its backend call, every
\* other caller can send a call and every other suspended call can complete;
\* the result delivered to a caller is the result of call_tool for the name
\* and arguments that caller sent.
C29_CallsIndependent ==
    \A c \in Callers :
        /\ tasks[c].state = "suspended" =>
               \A d \in Callers \ {c} :
                   /\ tasks[d].state = "idle" =>
                          \A call \in ConcurrentCalls :
                              ENABLED Dispatch(d, call.name, call.arguments)
                   /\ tasks[d].state = "suspended" => ENABLED Resume(d, FALSE)
        /\ tasks[c].state = "delivered" =>
               \E backendFails \in FailureChoices(tasks[c].name) :
                   tasks[c].result =
                       call_tool(tasks[c].name, tasks[c].arguments, MemuClient,
                                 backendFails).result

C29_Witness ==
    /\ tasks[1].state = "suspended"
    /\ tasks[1].name = "memorize_conversation"
    /\ tasks[2].state = "delivered"
    /\ 1 \in tasks[2].during
    /\ tasks[2].name = "retrieve_memory"
    /\ ~tasks[2].result.isError

\* the session is Connected: initialize() returned and close() has not run
Connected ==
    /\ attemptLog # <<>>
    /\ attemptLog[Len(attemptLog)] = "ok"
    /\ pc \in {"serving", "finally"}

\* keyword arguments acceptable to every adapter method
SampleKw ==
    [conversation |-> PyStr("hi", 2), user_id |-> PyStr("u1", 2), user_name |-> PyStr("Ann", 3),
     agent_id |-> PyStr("a1", 2), agent_name |-> PyStr("Bot", 3), query |-> PyStr("q", 1),
     search_query |-> PyStr("q", 1), filters |-> PyDict(0), limit |-> PyInt(10),
     memory_id |-> PyStr("mem_001", 7), new_content |-> PyStr("new", 3),
     include_details |-> PyBool(FALSE)]

\* C30: the session handle is set exactly while the session is Connected (after
\* an initialize() that returned, before close()); in every other state each
\* adapter method raises "Client not initialized" without contacting the
\* backend, and a call has contacted the backend only in a Connected state.
C30_OperateOnlyConnected ==
    /\ (_client = MemuClient) <=> Connected
    /\ ~Connected =>
           \A r \in {client_memorize_conversation(_client, SampleKw, FALSE),
                      client_retrieve_memory(_client, SampleKw),
                      client_search_memory(_client, SampleKw),
                      client_update_memory(_client, SampleKw),
                      client_delete_memory(_client, SampleKw),
                      client_get_memory_stats(_client, SampleKw)} :
               /\ r.exc = RuntimeError("Client not initialized")
               /\ ~r.contacted
    /\ last.h.contacted =>
           (attemptLog # <<>> /\ attemptLog[Len(attemptLog)] = "ok")

C30_Witness ==
    /\ pc = "exited"
    /\ _client = NoClient
    /\ last.h.contacted
    /\ attemptLog[Len(attemptLog)] = "ok"

C30_WitnessFailed ==
    /\ pc = "finally"
    /\ runExc.type = "ConnectionError"
    /\ Len(attemptLog) = 2
    /\ _client = NoClient

====
